---- MODULE Spec2Model ----
(***************************************************************************)
(* Model of parseSrcset (src/index.js): the srcset attribute parser.       *)
(*                                                                         *)
(* A string is a sequence of one-character strings; JavaScript offsets are *)
(* 0-based, so input.charAt(p) is input[p + 1] here.  The single variable  *)
(* frame holds the locals of one parseSrcset call (the closure shared by   *)
(* collectCharacters, tokenize and parseDescriptors), the locals of the    *)
(* parseDescriptors call in progress, the control point pc, and how the    *)
(* call ended (returned / error).  Each loop iteration of the code is one  *)
(* step operator on frames; the actions apply them.                        *)
(***************************************************************************)
EXTENDS Integers, Sequences, FiniteSets, TLC

VARIABLES frame

vars == <<frame>>

(* ---------------------------- bounds ----------------------------------- *)

\* Inputs are concatenations of at most MaxPieces pieces of text.
MaxPieces == 4

\* Inputs of SpecChars are strings of at most MaxChars characters.
MaxChars == 5

\* Inputs of SpecDescriptor are a url and one descriptor whose text before
\* the unit letter is made of at most MaxValuePieces pieces.
MaxValuePieces == 3

\* Longest input of SpecLoops, in pieces.
MaxLoopPieces == 5

\* Longest descriptor area of SpecParens, in characters.
MaxParenChars == 5

\* Longest input of SpecCandidates, in pieces.
MaxCandidatePieces == 5

\* Longest input of each call of SpecCalls, in pieces.
MaxCallPieces == 2

(* ---------------------------- characters ------------------------------- *)

\* input.charAt(position) past the end of input is the empty string.
EOF == ""

Digits == {"0", "1", "2", "3", "4", "5", "6", "7", "8", "9"}

DigitValue == [ch \in Digits |->
    CASE ch = "0" -> 0 [] ch = "1" -> 1 [] ch = "2" -> 2 [] ch = "3" -> 3
      [] ch = "4" -> 4 [] ch = "5" -> 5 [] ch = "6" -> 6 [] ch = "7" -> 7
      [] ch = "8" -> 8 [] ch = "9" -> 9]

\* Variant: every control character up to U+0020 counts as whitespace.
isASCIIWhitespace_controlCharacters(character) ==
    \/ character = "\t"
    \/ character = "\n"
    \/ character = "U+000B"
    \/ character = "\f"
    \/ character = "\r"
    \/ character = " "

isASCIIWhitespace(character) ==
    \/ character = "\t"
    \/ character = "\n"
    \/ character = "\f"
    \/ character = "\r"
    \/ character = " "

(* ---------------------------- regular expressions ---------------------- *)

\* The three "leading run" expressions are ^[class]+ or ^[^class]+ : a
\* character class and whether it is negated.
regexLeadingSpaces == [chars |-> {" ", "\t", "\n", "\r", "\f"}, negated |-> FALSE]

\* Variant: /^[ \t\n\r\u000c]+/, commas are not skipped before a URL.
regexLeadingCommasOrSpaces_spacesOnly ==
    [chars |-> {" ", "\t", "\n", "\r", "\f"}, negated |-> FALSE]

regexLeadingCommasOrSpaces == [chars |-> {",", " ", "\t", "\n", "\r", "\f"}, negated |-> FALSE]

regexLeadingNotSpaces == [chars |-> {" ", "\t", "\n", "\r", "\f"}, negated |-> TRUE]

InClass(regEx, ch) == (ch \in regEx.chars) # regEx.negated

\* Length of the match of a leading-run expression against str.substring(pos):
\* the longest prefix of characters of the class (0: no match).
MatchLength(regEx, str, pos) ==
    CHOOSE n \in 0..(Len(str) - pos) :
        /\ \A k \in 1..n : InClass(regEx, str[pos + k])
        /\ n = Len(str) - pos \/ ~InClass(regEx, str[pos + n + 1])

\* Variant: /[,]$/ , only the last comma is removed.
removeTrailingCommas_onlyOne(str) ==
    IF str # <<>> /\ str[Len(str)] = "," THEN SubSeq(str, 1, Len(str) - 1) ELSE str

\* url.replace(regexTrailingCommas, ""), regexTrailingCommas = /[,]+$/
removeTrailingCommas(str) ==
    LET keep == CHOOSE n \in 0..Len(str) :
                    /\ \A k \in (n + 1)..Len(str) : str[k] = ","
                    /\ n = 0 \/ str[n] # ","
    IN  SubSeq(str, 1, keep)

AllDigits(str) == \A k \in 1..Len(str) : str[k] \in Digits

\* /^\d+$/
regexNonNegativeInteger(str) == Len(str) > 0 /\ AllDigits(str)

\* Variant: (?:[0-9]+|[0-9]*\.[0-9]*), no digit needed after the point.
FloatMantissa_pointWithoutDigits(str) ==
    \/ regexNonNegativeInteger(str)
    \/ \E k \in 1..Len(str) :
          /\ str[k] = "."
          /\ AllDigits(SubSeq(str, 1, k - 1))
          /\ AllDigits(SubSeq(str, k + 1, Len(str)))

\* (?:[0-9]+|[0-9]*\.[0-9]+)
FloatMantissa(str) ==
    \/ regexNonNegativeInteger(str)
    \/ \E k \in 1..Len(str) :
          /\ str[k] = "."
          /\ AllDigits(SubSeq(str, 1, k - 1))
          /\ regexNonNegativeInteger(SubSeq(str, k + 1, Len(str)))

\* (?:[eE][+-]?[0-9]+)?
FloatExponent(str) ==
    \/ str = <<>>
    \/ /\ str[1] \in {"e", "E"}
       /\ LET rest   == Tail(str)
              digits == IF rest # <<>> /\ rest[1] \in {"+", "-"} THEN Tail(rest) ELSE rest
          IN  regexNonNegativeInteger(digits)

\* /^-?(?:[0-9]+|[0-9]*\.[0-9]+)(?:[eE][+-]?[0-9]+)?$/
regexFloatingPoint(str) ==
    LET body == IF str # <<>> /\ str[1] = "-" THEN Tail(str) ELSE str
    IN  \E k \in 0..Len(body) :
            /\ FloatMantissa(SubSeq(body, 1, k))
            /\ FloatExponent(SubSeq(body, k + 1, Len(body)))

(* ---------------------------- numbers ---------------------------------- *)

RECURSIVE DigitsValue(_)
DigitsValue(str) ==
    IF str = <<>> THEN 0
    ELSE 10 * DigitsValue(SubSeq(str, 1, Len(str) - 1)) + DigitValue[str[Len(str)]]

\* parseInt(value, 10).  intVal is read only where
\* regexNonNegativeInteger.test(value) holds, so value is a digit string.
parseInt(value) == DigitsValue(value)

RECURSIVE Pow10(_)
Pow10(n) == IF n <= 0 THEN 1 ELSE 10 * Pow10(n - 1)

RECURSIVE Gcd(_, _)
Gcd(a, b) == IF b = 0 THEN a ELSE Gcd(b, a % b)

\* A number of the floating-point grammar: sign and magnitude num / den in
\* lowest terms.  The sign is kept for zero, as JavaScript keeps -0.
Number(neg, num, den) ==
    LET g == Gcd(num, den)
    IN  [neg |-> neg, num |-> num \div g, den |-> den \div g]

\* parseFloat(value).  floatVal is read only where
\* regexFloatingPoint.test(value) holds.  The literals of the model are far
\* from the range limits of a double, so the value is the exact decimal.
parseFloat(value) ==
    LET neg      == value # <<>> /\ value[1] = "-"
        body     == IF neg THEN Tail(value) ELSE value
        ePos     == IF \E k \in 1..Len(body) : body[k] \in {"e", "E"}
                    THEN CHOOSE k \in 1..Len(body) : body[k] \in {"e", "E"}
                    ELSE Len(body) + 1
        mantissa == SubSeq(body, 1, ePos - 1)
        expText  == SubSeq(body, ePos + 1, Len(body))
        expNeg   == expText # <<>> /\ expText[1] = "-"
        expDigs  == IF expText # <<>> /\ expText[1] \in {"+", "-"} THEN Tail(expText) ELSE expText
        exponent == IF expNeg THEN 0 - DigitsValue(expDigs) ELSE DigitsValue(expDigs)
        dotPos   == IF \E k \in 1..Len(mantissa) : mantissa[k] = "."
                    THEN CHOOSE k \in 1..Len(mantissa) : mantissa[k] = "."
                    ELSE Len(mantissa) + 1
        intPart  == SubSeq(mantissa, 1, dotPos - 1)
        fracPart == SubSeq(mantissa, dotPos + 1, Len(mantissa))
        digits   == DigitsValue(intPart \o fracPart)
        scale    == exponent - Len(fracPart)
    IN  IF scale >= 0
        THEN Number(neg, digits * Pow10(scale), 1)
        ELSE Number(neg, digits, Pow10(0 - scale))

\* floatVal < 0
LessThanZero(n) == n.neg /\ n.num > 0

\* === on numbers: -0 === 0
NumberEquals(a, b) == a.num = b.num /\ a.den = b.den /\ (a.num = 0 \/ a.neg = b.neg)

(* ---------------------------- optional values -------------------------- *)

\* A declared but unassigned variable, or a property that was not set.
undefined == [present |-> FALSE]

Integer(n) == [present |-> TRUE, value |-> n]

Float(n) == [present |-> TRUE, value |-> n]

\* if (w), if (h): an integer is truthy unless it is undefined or 0.
TruthyInteger(x) == x.present /\ x.value # 0

\* if (d): a number is truthy unless it is undefined, 0 or -0.
TruthyFloat(x) == x.present /\ x.value.num # 0

(* ---------------------------- the call frame ------------------------- *)

\* The state of a parseSrcset call right after `const candidates = []`.
\* url, descriptors, currentDescriptor, state, c, startOffset and the locals
\* of parseDescriptors are declared without a value; each is assigned before
\* the code reads it, so the value given here is never observed.
newFrame(input) ==
    [ input             |-> input,
      inputLength       |-> Len(input),
      position          |-> 0,
      startOffset       |-> 0,
      url               |-> <<>>,
      descriptors       |-> <<>>,
      currentDescriptor |-> <<>>,
      state             |-> "undefined",
      c                 |-> EOF,
      candidates        |-> <<>>,
      pError            |-> FALSE,
      w                 |-> undefined,
      d                 |-> undefined,
      h                 |-> undefined,
      i                 |-> 0,
      desc              |-> <<>>,
      pc                |-> "splittingLoop",
      returned          |-> undefined,
      error             |-> undefined ]

charAt(str, pos) == IF pos >= 0 /\ pos < Len(str) THEN str[pos + 1] ELSE EOF

\* collectCharacters(regEx): the characters matched at position ...
collectedCharacters(f, regEx) ==
    SubSeq(f.input, f.position + 1, f.position + MatchLength(regEx, f.input, f.position))

\* ... and its effect on position.
collectCharacters(f, regEx) ==
    [f EXCEPT !.position = @ + MatchLength(regEx, f.input, f.position)]

\* throw new Error("Must contain one or more image candidate strings.")
throwEmpty(f) ==
    [f EXCEPT !.pc = "thrown",
              !.error = [present |-> TRUE, name |-> "EmptyCandidateSet", desc |-> <<>>]]

\* Variant: the error is recorded and the splitting loop goes on.
throwInvalid_goesOn(f) ==
    [f EXCEPT !.pc = "splittingLoop",
              !.error = [present |-> TRUE, name |-> "InvalidDescriptor", desc |-> f.desc]]

\* throw new Error(`Invalid srcset descriptor found in "${input}" at "${desc}".`)
throwInvalid(f) ==
    [f EXCEPT !.pc = "thrown",
              !.error = [present |-> TRUE, name |-> "InvalidDescriptor", desc |-> f.desc]]

\* Variant: return candidates.slice(0, -1)
returnCandidates_dropsLast(f) ==
    [f EXCEPT !.pc = "returned",
              !.returned = [present |-> TRUE,
                            value |-> SubSeq(f.candidates, 1, Len(f.candidates) - 1)]]

\* return candidates
returnCandidates(f) ==
    [f EXCEPT !.pc = "returned", !.returned = [present |-> TRUE, value |-> f.candidates]]

(* ---------------------------- parseDescriptors ------------------------- *)

\* Variant: w, d and h are not declared anew, they keep their values.
parseDescriptorsCall_keepsValues(f) ==
    [f EXCEPT !.pc = "parseDescriptors", !.pError = FALSE, !.i = 0, !.desc = <<>>]

\* Entry of parseDescriptors: its locals are fresh.
parseDescriptorsCall(f) ==
    [f EXCEPT !.pc = "parseDescriptors", !.pError = FALSE,
              !.w = undefined, !.d = undefined, !.h = undefined,
              !.i = 0, !.desc = <<>>]

\* Variant: if (d), a width already set is not noticed.
widthConflict_ignoresWidth(f) == TruthyFloat(f.d)

\* if (w || d)
widthConflict(f) == TruthyInteger(f.w) \/ TruthyFloat(f.d)

\* Variant: if (d), a width or height already set is not noticed.
densityConflict_onlyDensity(f) == TruthyFloat(f.d)

\* if (w || d || h)
densityConflict(f) == TruthyInteger(f.w) \/ TruthyFloat(f.d) \/ TruthyInteger(f.h)

\* Variant: if (h || d || w), a width already set excludes a height.
heightConflict_includesWidth(f) == TruthyInteger(f.h) \/ TruthyFloat(f.d) \/ TruthyInteger(f.w)

\* if (h || d)
heightConflict(f) == TruthyInteger(f.h) \/ TruthyFloat(f.d)

\* desc[desc.length - 1]
lastCharOf(desc) == IF desc = <<>> THEN "undefined" ELSE desc[Len(desc)]

\* Variant: desc.substring(0, desc.length), the unit letter stays in value.
valueOf_keepsUnit(desc) == SubSeq(desc, 1, Len(desc))

\* desc.substring(0, desc.length - 1)
valueOf(desc) == SubSeq(desc, 1, Len(desc) - 1)

\* One iteration of the for loop over descriptors.
parseDescriptorsStep(f) ==
    LET desc     == f.descriptors[f.i + 1]
        lastChar == lastCharOf(desc)
        value    == valueOf(desc)
        intVal   == parseInt(value)
        floatVal == parseFloat(value)
        g        == [f EXCEPT !.desc = desc, !.i = @ + 1]
    IN  IF regexNonNegativeInteger(value) /\ lastChar = "w"
        THEN LET g1 == IF widthConflict(g) THEN [g EXCEPT !.pError = TRUE] ELSE g
             IN  IF intVal = 0 THEN [g1 EXCEPT !.pError = TRUE]
                               ELSE [g1 EXCEPT !.w = Integer(intVal)]
        ELSE IF regexFloatingPoint(value) /\ lastChar = "x"
        THEN LET g1 == IF densityConflict(g) THEN [g EXCEPT !.pError = TRUE] ELSE g
             IN  IF LessThanZero(floatVal) THEN [g1 EXCEPT !.pError = TRUE]
                                           ELSE [g1 EXCEPT !.d = Float(floatVal)]
        ELSE IF regexNonNegativeInteger(value) /\ lastChar = "h"
        THEN LET g1 == IF heightConflict(g) THEN [g EXCEPT !.pError = TRUE] ELSE g
             IN  IF intVal = 0 THEN [g1 EXCEPT !.pError = TRUE]
                               ELSE [g1 EXCEPT !.h = Integer(intVal)]
        ELSE [g EXCEPT !.pError = TRUE]

\* The candidate object built when error is still no.
newCandidate(f) ==
    [ source  |-> [value |-> f.url, startOffset |-> f.startOffset],
      width   |-> IF TruthyInteger(f.w) THEN f.w ELSE undefined,
      density |-> IF TruthyFloat(f.d) THEN f.d ELSE undefined,
      height  |-> IF TruthyInteger(f.h) THEN f.h ELSE undefined ]

\* Variant: a candidate with an invalid descriptor is dropped and the
\* splitting loop goes on.
parseDescriptorsEnd_skipsCandidate(f) ==
    IF ~f.pError
    THEN [f EXCEPT !.candidates = Append(@, newCandidate(f)), !.pc = "splittingLoop"]
    ELSE [f EXCEPT !.pc = "splittingLoop"]

\* After the loop: push the candidate and go back to the splitting loop, or
\* throw.
parseDescriptorsEnd(f) ==
    IF ~f.pError
    THEN [f EXCEPT !.candidates = Append(@, newCandidate(f)), !.pc = "splittingLoop"]
    ELSE throwInvalid(f)

(* ---------------------------- tokenize --------------------------------- *)

\* Entry of tokenize, steps 8.1 to 8.3.
tokenizeCall(f) ==
    [collectCharacters(f, regexLeadingSpaces) EXCEPT
        !.currentDescriptor = <<>>, !.state = "in descriptor", !.pc = "tokenize"]

\* Variant: descriptors.push(currentDescriptor) without the test.
pushCurrentDescriptor_evenEmpty(f) ==
    [f EXCEPT !.descriptors = Append(@, f.currentDescriptor)]

\* if (currentDescriptor) descriptors.push(currentDescriptor)
pushCurrentDescriptor(f) ==
    IF f.currentDescriptor # <<>>
    THEN [f EXCEPT !.descriptors = Append(@, f.currentDescriptor)]
    ELSE f

\* currentDescriptor += c
appendToCurrentDescriptor(f) == [f EXCEPT !.currentDescriptor = Append(@, f.c)]

\* position += 1 at the end of an iteration
advance(f) == [f EXCEPT !.position = @ + 1]

\* Variant: no position -= 1, the character is skipped.
rewind_skipsCharacter(f) == [f EXCEPT !.state = "in descriptor"]

\* Variant: the state stays "after descriptor".
rewind_keepsState(f) == [f EXCEPT !.position = @ - 1]

\* Variant: position -= 2
rewind_twoCharacters(f) == [f EXCEPT !.state = "in descriptor", !.position = @ - 2]

\* After descriptor, anything else: state = "in descriptor"; position -= 1
rewind(f) == [f EXCEPT !.state = "in descriptor", !.position = @ - 1]

\* Variant: the comma is appended to the current descriptor before the push.
inDescriptorComma_keepsComma(g) ==
    parseDescriptorsCall(
        pushCurrentDescriptor(appendToCurrentDescriptor([g EXCEPT !.position = @ + 1])))

\* In descriptor, U+002C COMMA: advance, push the current descriptor if it
\* is not empty, jump to the descriptor parser.
inDescriptorComma(g) ==
    parseDescriptorsCall(pushCurrentDescriptor([g EXCEPT !.position = @ + 1]))

\* Variant: at the end of input the unclosed descriptor is not pushed.
inParens_dropsUnclosed(g) ==
    IF g.c = ")"
    THEN advance([appendToCurrentDescriptor(g) EXCEPT !.state = "in descriptor"])
    ELSE IF g.c = EOF
    THEN parseDescriptorsCall(g)
    ELSE advance(appendToCurrentDescriptor(g))

\* Variant: parentheses nest, a ")" leaves the state only when it closes
\* the outermost "(".
inParens_nesting(g) ==
    LET cd    == g.currentDescriptor
        depth == Cardinality({k \in 1..Len(cd) : cd[k] = "("})
                     - Cardinality({k \in 1..Len(cd) : cd[k] = ")"})
    IN  IF g.c = ")"
        THEN advance([appendToCurrentDescriptor(g) EXCEPT
                 !.state = IF depth > 1 THEN "in parens" ELSE "in descriptor"])
        ELSE IF g.c = EOF
        THEN parseDescriptorsCall([g EXCEPT !.descriptors = Append(@, g.currentDescriptor)])
        ELSE advance(appendToCurrentDescriptor(g))

\* Variant: a comma in parens ends the descriptor as it does outside.
inParens_commaEndsDescriptor(g) ==
    IF g.c = ")"
    THEN advance([appendToCurrentDescriptor(g) EXCEPT !.state = "in descriptor"])
    ELSE IF g.c = ","
    THEN parseDescriptorsCall(pushCurrentDescriptor([g EXCEPT !.position = @ + 1]))
    ELSE IF g.c = EOF
    THEN parseDescriptorsCall([g EXCEPT !.descriptors = Append(@, g.currentDescriptor)])
    ELSE advance(appendToCurrentDescriptor(g))

\* In parens: the branch of the loop body for state "in parens".
inParens(g) ==
    IF g.c = ")"
    THEN advance([appendToCurrentDescriptor(g) EXCEPT !.state = "in descriptor"])
    ELSE IF g.c = EOF
    THEN parseDescriptorsCall([g EXCEPT !.descriptors = Append(@, g.currentDescriptor)])
    ELSE advance(appendToCurrentDescriptor(g))

\* One iteration of the while loop of tokenize.
tokenizeStep(f) ==
    LET g == [f EXCEPT !.c = charAt(f.input, f.position)]
        c == g.c
    IN  IF g.state = "in descriptor"
        THEN IF isASCIIWhitespace(c)
             THEN IF g.currentDescriptor # <<>>
                  THEN advance([g EXCEPT !.descriptors = Append(@, g.currentDescriptor),
                                         !.currentDescriptor = <<>>,
                                         !.state = "after descriptor"])
                  ELSE advance(g)
             ELSE IF c = ","
             THEN inDescriptorComma(g)
             ELSE IF c = "("
             THEN advance([appendToCurrentDescriptor(g) EXCEPT !.state = "in parens"])
             ELSE IF c = EOF
             THEN parseDescriptorsCall(pushCurrentDescriptor(g))
             ELSE advance(appendToCurrentDescriptor(g))
        ELSE IF g.state = "in parens"
        THEN inParens(g)
        ELSE IF g.state = "after descriptor"
        THEN IF isASCIIWhitespace(c)
             THEN advance(g)
             ELSE IF c = EOF
             THEN parseDescriptorsCall(g)
             ELSE advance(rewind(g))
        ELSE advance(g)

(* ---------------------------- splitting loop --------------------------- *)

\* Variant: the error is thrown whatever the candidate list holds.
splittingLoopEnd_alwaysThrows(f) == throwEmpty(f)

\* Variant: no check for an empty candidate list.
splittingLoopEnd_alwaysReturns(f) == returnCandidates(f)

\* Step 5: position is past the end of input.
splittingLoopEnd(f) ==
    IF Len(f.candidates) = 0 THEN throwEmpty(f) ELSE returnCandidates(f)

\* Variant: the tokenizer also runs after trailing commas were removed.
splittingLoopCandidate_alwaysTokenizes(f) ==
    LET url == collectedCharacters(f, regexLeadingNotSpaces)
        g   == [collectCharacters(f, regexLeadingNotSpaces) EXCEPT
                   !.startOffset = f.position, !.url = url, !.descriptors = <<>>]
    IN  IF url # <<>> /\ url[Len(url)] = ","
        THEN tokenizeCall([g EXCEPT !.url = removeTrailingCommas(url)])
        ELSE tokenizeCall(g)

\* Variant: startOffset is taken after the url has been collected.
splittingLoopCandidate_offsetAfterUrl(f) ==
    LET url == collectedCharacters(f, regexLeadingNotSpaces)
        g   == [collectCharacters(f, regexLeadingNotSpaces) EXCEPT
                   !.startOffset = f.position + Len(url), !.url = url, !.descriptors = <<>>]
    IN  IF url # <<>> /\ url[Len(url)] = ","
        THEN parseDescriptorsCall([g EXCEPT !.url = removeTrailingCommas(url)])
        ELSE tokenizeCall(g)

\* Steps 6 to 8: collect the url, then parse descriptors or tokenize.
splittingLoopCandidate(f) ==
    LET url == collectedCharacters(f, regexLeadingNotSpaces)
        g   == [collectCharacters(f, regexLeadingNotSpaces) EXCEPT
                   !.startOffset = f.position, !.url = url, !.descriptors = <<>>]
    IN  IF url # <<>> /\ url[Len(url)] = ","
        THEN parseDescriptorsCall([g EXCEPT !.url = removeTrailingCommas(url)])
        ELSE tokenizeCall(g)

\* One iteration of the outer while loop, up to the call it ends with.
splittingLoop(f) ==
    LET g == collectCharacters(f, regexLeadingCommasOrSpaces)
    IN  IF g.position >= g.inputLength
        THEN splittingLoopEnd(g)
        ELSE splittingLoopCandidate(g)

(* ---------------------------- the whole call --------------------------- *)

Terminated(f) == f.pc \in {"returned", "thrown"}

step(f) ==
    CASE f.pc = "splittingLoop" -> splittingLoop(f)
      [] f.pc = "tokenize" -> tokenizeStep(f)
      [] f.pc = "parseDescriptors" /\ f.i < Len(f.descriptors) -> parseDescriptorsStep(f)
      [] f.pc = "parseDescriptors" /\ f.i >= Len(f.descriptors) -> parseDescriptorsEnd(f)
      [] OTHER -> f

RECURSIVE run(_)
run(f) == IF Terminated(f) THEN f ELSE run(step(f))

\* parseSrcset(input): the frame in which the call ended.
parseSrcset(input) == run(newFrame(input))

(* ---------------------------- inputs ----------------------------------- *)

Separators == {" ", "\t", "\n", "\f", "\r", ","}

\* The pieces of text inputs are made of: each separator character, a url
\* character, and descriptors of every kind, each after a space.
Pieces ==
    { <<" ">>, <<"\t">>, <<"\n">>, <<"\f">>, <<"\r">>, <<",">>,
      <<"a">>,
      <<" ", "2", "w">>, <<" ", "0", "w">>,
      <<" ", "1", "0", "h">>,
      <<" ", "1", ".", "5", "x">>, <<" ", "0", "x">>, <<" ", "-", "0", "x">>,
      <<" ", "-", "1", "x">>,
      <<" ", "f">> }

RECURSIVE Concat(_)
Concat(pieces) == IF pieces = <<>> THEN <<>> ELSE Head(pieces) \o Concat(Tail(pieces))

\* The sequences of n pieces.
PieceLists(n) == [1..n -> Pieces]

(* ---------------------------- specification ---------------------------- *)

Init ==
    \E n \in 0..MaxPieces :
        \E pieces \in PieceLists(n) : frame = newFrame(Concat(pieces))

SplittingLoop ==
    /\ frame.pc = "splittingLoop"
    /\ frame' = splittingLoop(frame)

TokenizeStep ==
    /\ frame.pc = "tokenize"
    /\ frame' = tokenizeStep(frame)

ParseDescriptorsStep ==
    /\ frame.pc = "parseDescriptors"
    /\ frame.i < Len(frame.descriptors)
    /\ frame' = parseDescriptorsStep(frame)

ParseDescriptorsEnd ==
    /\ frame.pc = "parseDescriptors"
    /\ frame.i >= Len(frame.descriptors)
    /\ frame' = parseDescriptorsEnd(frame)

Next ==
    \/ SplittingLoop
    \/ TokenizeStep
    \/ ParseDescriptorsStep
    \/ ParseDescriptorsEnd

Spec == Init /\ [][Next]_vars

(* ---------------------------- other input families --------------------- *)

\* U+000B LINE TABULATION, a character that is not ASCII whitespace.
VT == "U+000B"

\* Every string of separators, parentheses, url and descriptor characters
\* and the non-whitespace control character.
Chars == {" ", ",", "(", ")", "b", "1", "x", VT}

InitChars ==
    \E n \in 0..MaxChars :
        \E str \in [1..n -> Chars] : frame = newFrame(str)

SpecChars == InitChars /\ [][Next]_vars

\* Inputs with several candidates that have descriptors: a URL, the two
\* separators, a descriptor of each kind and an invalid one.
CandidatePieces ==
    { <<"a">>, <<",">>, <<" ">>, <<" ", "2", "w">>, <<" ", "1", ".", "5", "x">>,
      <<" ", "1", "0", "h">>, <<" ", "f">> }

InitCandidates ==
    \E n \in 0..MaxCandidatePieces :
        \E pieces \in [1..n -> CandidatePieces] : frame = newFrame(Concat(pieces))

SpecCandidates == InitCandidates /\ [][Next]_vars

\* Two calls of parseSrcset whose steps interleave. Here the variable holds
\* one frame for each call: everything a call assigns is declared inside
\* parseSrcset (lines 49-77, 248-264), and what is declared outside it, the
\* regular expressions without g or y flag and isASCIIWhitespace, is never
\* written.
CallPieces == { <<"a">>, <<",">>, <<" ", "2", "w">>, <<" ", "f">> }

InitCalls ==
    \E n \in 0..MaxCallPieces : \E m \in 0..MaxCallPieces :
        \E first \in [1..n -> CallPieces] : \E second \in [1..m -> CallPieces] :
            frame = <<newFrame(Concat(first)), newFrame(Concat(second))>>

\* Variant: candidates is declared outside parseSrcset, one list for all
\* calls.
callStep_sharedCandidates(calls, k) ==
    LET after == step(calls[k])
    IN  [j \in 1..2 |->
            IF j = k THEN after ELSE [calls[j] EXCEPT !.candidates = after.candidates]]

\* A step of call k: it reads and writes the frame of call k only.
callStep(calls, k) == [calls EXCEPT ![k] = step(calls[k])]

FirstCallStep ==
    /\ ~Terminated(frame[1])
    /\ frame' = callStep(frame, 1)

SecondCallStep ==
    /\ ~Terminated(frame[2])
    /\ frame' = callStep(frame, 2)

NextCalls == FirstCallStep \/ SecondCallStep

SpecCalls == InitCalls /\ [][NextCalls]_vars

\* Inputs with parentheses in the descriptor area: the URL 'a', a space, and
\* up to MaxParenChars characters, among them 1 and x for the descriptor '1x'.
ParenChars == {" ", ",", "(", ")", "1", "x"}

InitParens ==
    \E n \in 0..MaxParenChars :
        \E str \in [1..n -> ParenChars] : frame = newFrame(<<"a", " ">> \o str)

SpecParens == InitParens /\ [][Next]_vars

\* Inputs for termination: the characters the loops branch on, and '1x', a
\* URL or a descriptor after which the splitting loop goes on.
LoopPieces == { <<" ">>, <<",">>, <<"(">>, <<")">>, <<"1", "x">> }

InitLoops ==
    \E n \in 0..MaxLoopPieces :
        \E pieces \in [1..n -> LoopPieces] : frame = newFrame(Concat(pieces))

\* The loops of the program run on: a call that can take a step takes one.
SpecLoops == InitLoops /\ [][Next]_vars /\ WF_vars(Next)

\* A url followed by one descriptor: any text made of these pieces, then an
\* exponent of some spelling or none, then a unit letter of either case.
ValuePieces ==
    { <<"0">>, <<"1">>, <<"-">>, <<"+">>, <<".">>, <<".", "5">>, <<"x">>, <<"w">>,
      <<"I", "n", "f", "i", "n", "i", "t", "y">>, <<"N", "a", "N">> }

Exponents ==
    { <<>>, <<"e", "1">>, <<"e", "-", "1">>, <<"E", "+", "0">>, <<"e">>,
      <<"e", "1", ".", "5">> }

Units == {"w", "h", "x", "W", "H", "X"}

InitDescriptor ==
    \E n \in 0..MaxValuePieces :
        \E pieces \in [1..n -> ValuePieces] :
            \E exponent \in Exponents :
                \E unit \in Units :
                    frame = newFrame(<<"a", " ">> \o Concat(pieces) \o exponent \o <<unit>>)

SpecDescriptor == InitDescriptor /\ [][Next]_vars

(* ---------------------------- vocabulary of the properties ------------- *)

OnlySeparators(str) == \A k \in 1..Len(str) : str[k] \in Separators

\* The validator has finished with frame.descriptors (or has not run yet
\* and the list is empty).
ValidatorDone == frame.pc \in {"splittingLoop", "returned", "thrown"}

\* A candidate has been pushed and nothing of the next one has been read:
\* frame.descriptors is the descriptor list of the last candidate.
CandidatePushed == frame.pc \in {"splittingLoop", "returned"} /\ Len(frame.candidates) > 0

LastCandidate == frame.candidates[Len(frame.candidates)]

IsWidthDescriptor(desc) == regexNonNegativeInteger(valueOf(desc)) /\ lastCharOf(desc) = "w"

IsHeightDescriptor(desc) == regexNonNegativeInteger(valueOf(desc)) /\ lastCharOf(desc) = "h"

IsDensityDescriptor(desc) == regexFloatingPoint(valueOf(desc)) /\ lastCharOf(desc) = "x"

IsNonZeroWidth(desc) == IsWidthDescriptor(desc) /\ parseInt(valueOf(desc)) # 0

IsNonZeroHeight(desc) == IsHeightDescriptor(desc) /\ parseInt(valueOf(desc)) # 0

IsNonNegativeDensity(desc) == IsDensityDescriptor(desc) /\ ~LessThanZero(parseFloat(valueOf(desc)))

ThrownInvalid == frame.pc = "thrown" /\ frame.error.name = "InvalidDescriptor"

ThrownEmpty == frame.pc = "thrown" /\ frame.error.name = "EmptyCandidateSet"

\* The validator's locals before iteration k + 1 of the loop over
\* f.descriptors.
RECURSIVE AfterIterations(_, _)
AfterIterations(f, k) ==
    IF k = 0 THEN parseDescriptorsCall(f) ELSE parseDescriptorsStep(AfterIterations(f, k - 1))

\* Iteration k of the loop is one that sets error to yes.
TriggersError(f, k) ==
    parseDescriptorsStep([AfterIterations(f, k - 1) EXCEPT !.pError = FALSE]).pError

LeadingSeparators(str) == MatchLength(regexLeadingCommasOrSpaces, str, 0)

\* str without its leading and trailing separator characters.
Trim(str) ==
    LET first == LeadingSeparators(str) + 1
        last  == CHOOSE n \in 0..Len(str) :
                     /\ \A k \in (n + 1)..Len(str) : str[k] \in Separators
                     /\ n = 0 \/ str[n] \notin Separators
    IN  SubSeq(str, first, last)

\* str parses to exactly one candidate.
SingleCandidate(str) ==
    LET r == parseSrcset(str)
    IN  r.pc = "returned" /\ Len(r.candidates) = 1

(* ---------------------------- C1 --------------------------------------- *)

C2_InvalidDescriptorFailsWholeParse ==
    (frame.pError /\ frame.pc # "parseDescriptors") =>
        ThrownInvalid /\ ~frame.returned.present

C2_Witness ==
    /\ ThrownInvalid
    /\ frame.pError
    /\ Len(frame.candidates) >= 1
    /\ ~frame.returned.present

(* ---------------------------- C3 --------------------------------------- *)

\* C3: no candidate is accepted whose descriptor list holds a density
\* descriptor together with a width or a height descriptor.
C3_DensityExcludesWidthAndHeight ==
    CandidatePushed =>
        ~ \E j, k \in DOMAIN frame.descriptors :
              /\ IsDensityDescriptor(frame.descriptors[j])
              /\ \/ IsWidthDescriptor(frame.descriptors[k])
                 \/ IsHeightDescriptor(frame.descriptors[k])

(* ---------------------------- C4 --------------------------------------- *)

\* C4: no candidate is accepted whose descriptor list holds two well-formed
\* non-negative density descriptors.
C4_TwoDensitiesFail ==
    CandidatePushed =>
        ~ \E j, k \in DOMAIN frame.descriptors :
              /\ j # k
              /\ IsNonNegativeDensity(frame.descriptors[j])
              /\ IsNonNegativeDensity(frame.descriptors[k])

(* ---------------------------- C5 --------------------------------------- *)

\* C5: no candidate is accepted whose descriptor list holds two well-formed
\* non-zero width descriptors or two well-formed non-zero height descriptors.
C5_TwoWidthsOrTwoHeightsFail ==
    CandidatePushed =>
        ~ \E j, k \in DOMAIN frame.descriptors :
              /\ j # k
              /\ \/ IsNonZeroWidth(frame.descriptors[j]) /\ IsNonZeroWidth(frame.descriptors[k])
                 \/ IsNonZeroHeight(frame.descriptors[j]) /\ IsNonZeroHeight(frame.descriptors[k])

C5_Witness ==
    /\ ThrownInvalid
    /\ Len(frame.descriptors) = 2
    /\ IsNonZeroWidth(frame.descriptors[1])
    /\ IsNonZeroWidth(frame.descriptors[2])

(* ---------------------------- C6 --------------------------------------- *)

\* C6: an accepted candidate whose descriptor list holds a density descriptor
\* has a density field, and its value is the number the descriptor spells
\* (0 for "0x" and for "-0x").
C6_DensityReported ==
    CandidatePushed =>
        \A k \in DOMAIN frame.descriptors :
            IsDensityDescriptor(frame.descriptors[k]) =>
                /\ LastCandidate.density.present
                /\ NumberEquals(LastCandidate.density.value,
                                parseFloat(valueOf(frame.descriptors[k])))

(* ---------------------------- C7 --------------------------------------- *)

\* C7: in a returned list no candidate has a density together with a width
\* or together with a height.
C7_DensityAloneInResult ==
    frame.returned.present =>
        \A k \in DOMAIN frame.returned.value :
            LET candidate == frame.returned.value[k]
            IN  candidate.density.present =>
                    ~candidate.width.present /\ ~candidate.height.present

C7_Witness ==
    /\ frame.returned.present
    /\ Len(frame.returned.value) = 2
    /\ ~frame.returned.value[1].density.present
    /\ frame.returned.value[2].density = [present |-> TRUE, value |-> [neg |-> FALSE, num |-> 3, den |-> 2]]

(* ---------------------------- C8 --------------------------------------- *)

\* C8: a descriptor list of exactly one non-zero width descriptor and one
\* non-zero height descriptor, in either order, is accepted, and the candidate
\* has the width and the height the descriptors spell.
C8_WidthWithHeightAccepted ==
    \A j, k \in {1, 2} :
        ( /\ ValidatorDone
          /\ Len(frame.descriptors) = 2
          /\ j # k
          /\ IsNonZeroWidth(frame.descriptors[j])
          /\ IsNonZeroHeight(frame.descriptors[k]) ) =>
            /\ CandidatePushed
            /\ LastCandidate.width = Integer(parseInt(valueOf(frame.descriptors[j])))
            /\ LastCandidate.height = Integer(parseInt(valueOf(frame.descriptors[k])))

C8_Witness ==
    /\ frame.pc = "returned"
    /\ frame.descriptors = << <<"1", "0", "h">>, <<"2", "w">> >>
    /\ Len(frame.returned.value) = 1
    /\ frame.returned.value[1].width = [present |-> TRUE, value |-> 2]
    /\ frame.returned.value[1].height = [present |-> TRUE, value |-> 10]

(* ---------------------------- C9 --------------------------------------- *)

\* C9: the descriptor named in the invalid-descriptor error is one of the
\* descriptors whose iteration of the validator loop set the error flag.
C9_ErrorNamesOffendingDescriptor ==
    ThrownInvalid =>
        \E k \in DOMAIN frame.descriptors :
            /\ frame.descriptors[k] = frame.error.desc
            /\ TriggersError(frame, k)

(* ---------------------------- C10 -------------------------------------- *)

\* C10 as claimed: when the input without its leading and trailing
\* separators parses to one candidate, the input parses to one candidate
\* and that candidate is the same record, startOffset included.
C10_SameRecord ==
    (Terminated(frame) /\ SingleCandidate(Trim(frame.input))) =>
        /\ frame.returned.present
        /\ frame.returned.value = parseSrcset(Trim(frame.input)).returned.value

\* C10 amended: the candidate has the same url, width, density and height,
\* and its startOffset is larger by the number of leading separators.
C10_SameCandidateShiftedOffset ==
    (Terminated(frame) /\ SingleCandidate(Trim(frame.input))) =>
        /\ frame.returned.present
        /\ Len(frame.returned.value) = 1
        /\ LET padded == frame.returned.value[1]
               bare   == parseSrcset(Trim(frame.input)).returned.value[1]
           IN  /\ padded.source.value = bare.source.value
               /\ padded.width = bare.width
               /\ padded.density = bare.density
               /\ padded.height = bare.height
               /\ padded.source.startOffset =
                      bare.source.startOffset + LeadingSeparators(frame.input)

C10_Witness ==
    /\ frame.returned.present
    /\ SingleCandidate(Trim(frame.input))
    /\ LeadingSeparators(frame.input) >= 1
    /\ frame.input[Len(frame.input)] \in Separators
    /\ Len(frame.descriptors) >= 1
    /\ frame.returned.value[1].density.present
    /\ frame.returned.value[1].source.startOffset >= 1

(* ---------------------------- C11 -------------------------------------- *)

\* input.substring(start, start + length)
Substring(str, start, length) == SubSeq(str, start + 1, start + length)

\* C11: in a returned list every candidate's source.value is the text of the
\* input that starts at its source.startOffset and has the same length.
C11_SourceIsSubstringAtOffset ==
    frame.returned.present =>
        \A k \in DOMAIN frame.returned.value :
            LET source == frame.returned.value[k].source
            IN  /\ source.startOffset >= 0
                /\ source.startOffset + Len(source.value) <= Len(frame.input)
                /\ source.value =
                       Substring(frame.input, source.startOffset, Len(source.value))

C11_Witness ==
    /\ frame.returned.present
    /\ Len(frame.returned.value) = 2
    /\ frame.returned.value[1].source.startOffset >= 1
    /\ LET source == frame.returned.value[1].source
       IN  charAt(frame.input, source.startOffset + Len(source.value)) = ","

(* ---------------------------- C12 -------------------------------------- *)

NoWhitespace(str) == \A k \in 1..Len(str) : ~isASCIIWhitespace(str[k])

\* Number of occurrences of ch in str.
Count(ch, str) == Cardinality({k \in 1..Len(str) : str[k] = ch})

RECURSIVE CountInAll(_, _)
CountInAll(ch, strs) ==
    IF strs = <<>> THEN 0 ELSE Count(ch, Head(strs)) + CountInAll(ch, Tail(strs))

\* The candidate made of the whole input and nothing else.
WholeInputCandidate ==
    [ source  |-> [value |-> frame.input, startOffset |-> 0],
      width   |-> undefined,
      density |-> undefined,
      height  |-> undefined ]

\* C12 as claimed: an input with no ASCII whitespace in it that contains
\* U+000B yields exactly one candidate, whose source.value is the whole input.
C12_WholeInputIsTheUrl ==
    (Terminated(frame) /\ NoWhitespace(frame.input) /\ Count(VT, frame.input) > 0) =>
        /\ frame.returned.present
        /\ frame.returned.value = <<WholeInputCandidate>>

\* C12 amended: the same when the input neither starts nor ends with a
\* comma; and U+000B never ends a url token, and every U+000B the tokenizer
\* has gone over is in a descriptor or in the descriptor being collected.
C12_OnlyAsciiWhitespaceSeparates ==
    /\ ( /\ Terminated(frame)
         /\ NoWhitespace(frame.input)
         /\ Count(VT, frame.input) > 0
         /\ frame.input[1] # ","
         /\ frame.input[Len(frame.input)] # "," ) =>
            /\ frame.returned.present
            /\ frame.returned.value = <<WholeInputCandidate>>
            /\ frame.descriptors = <<>>
    /\ frame.pc \in {"tokenize", "parseDescriptors"} =>
            charAt(frame.input, frame.startOffset + Len(frame.url)) # VT
    /\ frame.pc = "tokenize" =>
            Count(VT, Substring(frame.input, frame.startOffset,
                                frame.position - frame.startOffset))
                = Count(VT, frame.url) + CountInAll(VT, frame.descriptors)
                  + Count(VT, frame.currentDescriptor)

C12_Witness ==
    /\ frame.returned.present
    /\ Len(frame.input) >= 4
    /\ frame.input[1] = VT
    /\ frame.input[Len(frame.input)] = VT
    /\ \E k \in 1..Len(frame.input) : frame.input[k] = ","
    /\ frame.returned.value = <<WholeInputCandidate>>

(* ---------------------------- C13, C14: one descriptor ----------------- *)

\* In SpecDescriptor the input is "a", a space and one descriptor.
LoneDescriptor == SubSeq(frame.input, 3, Len(frame.input))

LoneUnit == frame.input[Len(frame.input)]

LoneValue == SubSeq(frame.input, 3, Len(frame.input) - 1)

\* One or more decimal digits, not all of them 0.
IsPositiveDecimal(str) ==
    /\ Len(str) >= 1
    /\ \A k \in 1..Len(str) : str[k] \in {"0", "1", "2", "3", "4", "5", "6", "7", "8", "9"}
    /\ \E k \in 1..Len(str) : str[k] # "0"

\* Spellings the width and height grammar must reject: a sign, a decimal
\* point, an exponent, Infinity, NaN, a hex form, a repeated unit letter, 0.
RejectedIntegerValues ==
    { <<"-", "1">>, <<"+", "1">>, <<"1", ".", "0">>, <<"1", "e", "1">>, <<"1", "E", "+", "0">>,
      <<"I", "n", "f", "i", "n", "i", "t", "y">>, <<"N", "a", "N">>,
      <<"0", "x", "1">>, <<"1", "w">>, <<"0">>, <<>> }

\* C13: a lone descriptor that ends in w or h is accepted exactly when the
\* text before the unit letter is one or more decimal digits, not all 0; the
\* listed spellings and the upper-case unit letters are rejected.
C13_WidthAndHeightGrammar ==
    Terminated(frame) =>
        /\ LoneUnit \in {"w", "h"} =>
               /\ frame.returned.present <=> IsPositiveDecimal(LoneValue)
               /\ ~frame.returned.present => ThrownInvalid
               /\ LoneValue \in RejectedIntegerValues => ThrownInvalid
        /\ LoneUnit \in {"W", "H"} => ThrownInvalid

C13_Witness ==
    /\ frame.returned.present
    /\ frame.input = <<"a", " ", "0", "1", "0", "h">>
    /\ frame.returned.value[1].height = [present |-> TRUE, value |-> 10]
    /\ ~frame.returned.value[1].width.present

\* The floating-point grammar, read one character at a time.
FloatGrammarNext(at, ch) ==
    CASE at = "start" /\ ch = "-" -> "signed"
      [] at \in {"start", "signed", "integer"} /\ ch \in Digits -> "integer"
      [] at \in {"start", "signed", "integer"} /\ ch = "." -> "point"
      [] at \in {"point", "fraction"} /\ ch \in Digits -> "fraction"
      [] at \in {"integer", "fraction"} /\ ch \in {"e", "E"} -> "exponent mark"
      [] at = "exponent mark" /\ ch \in {"+", "-"} -> "exponent sign"
      [] at \in {"exponent mark", "exponent sign", "exponent"} /\ ch \in Digits -> "exponent"
      [] OTHER -> "no"

RECURSIVE FloatGrammarEnd(_, _)
FloatGrammarEnd(at, str) ==
    IF str = <<>> THEN at ELSE FloatGrammarEnd(FloatGrammarNext(at, Head(str)), Tail(str))

InFloatGrammar(str) == FloatGrammarEnd("start", str) \in {"integer", "fraction", "exponent"}

\* A leading minus and a digit other than 0 before any exponent.
SpellsNegative(str) ==
    /\ str # <<>>
    /\ str[1] = "-"
    /\ \E k \in 1..Len(str) :
          /\ str[k] \in Digits \ {"0"}
          /\ \A j \in 1..k : str[j] \notin {"e", "E"}

AcceptedFloatValues ==
    { <<"0">>, <<"-", "0">>, <<".", "5">>, <<"1", "e", "-", "1">> }

RejectedFloatValues ==
    { <<"-", "1">>, <<"+", "1">>, <<"1", ".">>, <<".">>, <<"-">>, <<"1", "e", "1", ".", "5">>,
      <<"I", "n", "f", "i", "n", "i", "t", "y">>, <<"N", "a", "N">>, <<"0", "x", "1">> }

\* C14: a lone descriptor that ends in x is accepted exactly when the text
\* before the unit letter is in the floating-point grammar and does not
\* spell a number below zero; the listed spellings behave as listed, and the
\* upper-case unit letter is rejected.
C14_DensityGrammar ==
    Terminated(frame) =>
        /\ LoneUnit = "x" =>
               /\ frame.returned.present <=>
                      InFloatGrammar(LoneValue) /\ ~SpellsNegative(LoneValue)
               /\ ~frame.returned.present => ThrownInvalid
               /\ LoneValue \in AcceptedFloatValues => frame.returned.present
               /\ LoneValue \in RejectedFloatValues => ThrownInvalid
        /\ LoneUnit = "X" => ThrownInvalid

C14_Witness ==
    /\ frame.returned.present
    /\ frame.input = <<"a", " ", "1", "e", "-", "1", "x">>
    /\ frame.returned.value[1].density =
           [present |-> TRUE, value |-> [neg |-> FALSE, num |-> 1, den |-> 10]]

(* ---------------------------- C15: parenthesis groups ------------------ *)

\* The length of the URL token that starts at offset from: the characters up
\* to the next whitespace or the end of the input.
UrlTokenLength(str, from) ==
    CHOOSE n \in 0..(Len(str) - from) :
        /\ \A k \in 1..n : ~isASCIIWhitespace(str[from + k])
        /\ from + n = Len(str) \/ isASCIIWhitespace(str[from + n + 1])

\* The offset just after the URL token of the candidate being read.
UrlTokenEnd == frame.startOffset + UrlTokenLength(frame.input, frame.startOffset)

\* The tokenizer runs for a URL token that does not end with a comma.
UrlTokenEndsWithComma == UrlTokenEnd > frame.startOffset /\ frame.input[UrlTokenEnd] = ","

\* Whether a parenthesis group is open after str: a group opens at a "("
\* outside a group and closes at the next ")".
RECURSIVE GroupOpenAfter(_, _)
GroupOpenAfter(open, str) ==
    IF str = <<>> THEN open
    ELSE GroupOpenAfter(IF open THEN Head(str) # ")" ELSE Head(str) = "(", Tail(str))

GroupOpen(str) == GroupOpenAfter(FALSE, str)

IsSeparator(ch) == ch = "," \/ isASCIIWhitespace(ch)

\* C15: while a parenthesis group is open the tokenizer is in parens and the
\* current descriptor holds every character read since the descriptor began,
\* commas and whitespace included; a comma or whitespace read in the group is
\* appended and ends neither the descriptor nor the candidate; descriptors
\* hold commas and whitespace only inside a group; the tokenizer hands over
\* only at a comma outside a group or at the end of input; no URL token
\* starts inside the group.
C15_ParenthesesSuspendSplitting ==
    /\ frame.pc = "tokenize" =>
           /\ frame.currentDescriptor =
                  Substring(frame.input, frame.position - Len(frame.currentDescriptor),
                            Len(frame.currentDescriptor))
           /\ (frame.state = "in parens") <=> GroupOpen(frame.currentDescriptor)
           /\ GroupOpen(frame.currentDescriptor) =>
                  /\ frame.startOffset < frame.position - Len(frame.currentDescriptor)
                  /\ \A j \in 1..Len(frame.candidates) :
                         frame.candidates[j].source.startOffset < frame.startOffset
                  /\ IsSeparator(charAt(frame.input, frame.position)) =>
                         LET next == tokenizeStep(frame)
                         IN  /\ next.pc = "tokenize"
                             /\ next.state = "in parens"
                             /\ next.descriptors = frame.descriptors
                             /\ next.candidates = frame.candidates
                             /\ next.startOffset = frame.startOffset
                             /\ next.currentDescriptor =
                                    Append(frame.currentDescriptor,
                                           charAt(frame.input, frame.position))
    /\ frame.pc \in {"tokenize", "parseDescriptors"} =>
           \A j \in 1..Len(frame.descriptors) :
               LET descriptor == frame.descriptors[j]
               IN  \A k \in 1..Len(descriptor) :
                       IsSeparator(descriptor[k]) => GroupOpen(SubSeq(descriptor, 1, k - 1))
    /\ frame.pc = "parseDescriptors" /\ ~UrlTokenEndsWithComma =>
           \/ /\ frame.position = frame.inputLength
              /\ \/ frame.input[frame.position] # ","
                 \/ ~GroupOpen(SubSeq(frame.input, UrlTokenEnd + 1, frame.position - 1))
                 \/ GroupOpen(SubSeq(frame.input, UrlTokenEnd + 1, frame.position))
           \/ /\ frame.position < frame.inputLength
              /\ frame.input[frame.position] = ","
              /\ ~GroupOpen(SubSeq(frame.input, UrlTokenEnd + 1, frame.position - 1))

\* 'b (,)' and 'b ( )': the group is one descriptor.
C15_Witness ==
    /\ frame.pc = "parseDescriptors"
    /\ frame.url = <<"b">>
    /\ frame.descriptors \in { << <<"(", ",", ")">> >>, << <<"(", " ", ")">> >> }
    /\ frame.position = frame.inputLength

(* ---------------------------- C16: order of the result ---------------- *)

\* The start offsets of the URL tokens that the iterations of the splitting
\* loop find from frame f on, in the order in which they are found.
RECURSIVE UrlTokenOffsets(_)
UrlTokenOffsets(f) ==
    IF Terminated(f) THEN <<>>
    ELSE IF f.pc = "splittingLoop" /\ ~Terminated(step(f))
    THEN <<step(f).startOffset>> \o UrlTokenOffsets(step(f))
    ELSE UrlTokenOffsets(step(f))

StartOffsets(candidates) == [j \in 1..Len(candidates) |-> candidates[j].source.startOffset]

StrictlyIncreasing(offsets) ==
    \A j \in 1..Len(offsets) : \A k \in 1..Len(offsets) : j < k => offsets[j] < offsets[k]

\* C16: the start offsets of the candidates collected so far are strictly
\* increasing, and on success the result has one candidate for each URL token
\* that the splitting loop found, in the order in which they were found.
C16_OneCandidatePerUrlTokenInOrder ==
    /\ StrictlyIncreasing(StartOffsets(frame.candidates))
    /\ frame.pc = "returned" =>
           /\ frame.returned.present
           /\ StrictlyIncreasing(StartOffsets(frame.returned.value))
           /\ StartOffsets(frame.returned.value) = UrlTokenOffsets(newFrame(frame.input))

\* Two candidates, the first one from the tokenizer with a width, after
\* leading separators.
C16_Witness ==
    /\ frame.pc = "returned"
    /\ Len(frame.returned.value) = 2
    /\ frame.returned.value[1].width.present
    /\ frame.returned.value[1].source.startOffset > 0

(* ---------------------------- C17: URL token with trailing commas ------ *)

\* str without the commas at its end.
WithoutTrailingCommas(str) ==
    LET kept == {k \in 1..Len(str) : str[k] # ","}
    IN  IF kept = {} THEN <<>>
        ELSE SubSeq(str, 1, CHOOSE k \in kept : \A j \in kept : j <= k)

UrlTokenOf(str, from) == Substring(str, from, UrlTokenLength(str, from))

\* The offset of the first character at or after from that is neither a comma
\* nor whitespace; Len(str) if there is none.
NextTextOffset(str, from) ==
    CHOOSE k \in from..Len(str) :
        /\ \A j \in from..(k - 1) : IsSeparator(str[j + 1])
        /\ k = Len(str) \/ ~IsSeparator(str[k + 1])

\* C17: the tokenizer never runs for a URL token that ends with a comma; the
\* validator is entered with the URL stripped of all its trailing commas, no
\* descriptors, and the position just after the token; the candidate that is
\* appended has no width, density or height; the text that follows the token
\* is the URL token of the next candidate of the result.
C17_TrailingCommasSkipTokenizer ==
    /\ frame.pc = "tokenize" => ~UrlTokenEndsWithComma
    /\ frame.pc = "parseDescriptors" /\ UrlTokenEndsWithComma =>
           /\ frame.url = WithoutTrailingCommas(UrlTokenOf(frame.input, frame.startOffset))
           /\ frame.descriptors = <<>>
           /\ frame.position = UrlTokenEnd
    /\ frame.pc = "splittingLoop" /\ Len(frame.candidates) > 0 /\ UrlTokenEndsWithComma =>
           /\ frame.position = UrlTokenEnd
           /\ LastCandidate.source.startOffset = frame.startOffset
           /\ LastCandidate.source.value =
                  WithoutTrailingCommas(UrlTokenOf(frame.input, frame.startOffset))
           /\ ~LastCandidate.width.present
           /\ ~LastCandidate.density.present
           /\ ~LastCandidate.height.present
    /\ frame.pc = "returned" =>
           \A j \in 1..Len(frame.returned.value) :
               LET candidate == frame.returned.value[j]
                   from      == candidate.source.startOffset
                   token     == UrlTokenOf(frame.input, from)
                   next      == NextTextOffset(frame.input, from + Len(token))
               IN  token[Len(token)] = "," =>
                       /\ candidate.source.value = WithoutTrailingCommas(token)
                       /\ ~candidate.width.present
                       /\ ~candidate.density.present
                       /\ ~candidate.height.present
                       /\ IF next < Len(frame.input)
                          THEN /\ j < Len(frame.returned.value)
                               /\ frame.returned.value[j + 1].source.startOffset = next
                          ELSE j = Len(frame.returned.value)

\* 'a, 1.5x' yields two candidates, 'a' and '1.5x', neither with a density.
C17_Witness ==
    /\ frame.pc = "returned"
    /\ frame.input = <<"a", ",", " ", "1", ".", "5", "x">>
    /\ Len(frame.returned.value) = 2
    /\ frame.returned.value[1].source.value = <<"a">>
    /\ frame.returned.value[2].source.value = <<"1", ".", "5", "x">>
    /\ ~frame.returned.value[1].density.present
    /\ ~frame.returned.value[2].density.present

(* ---------------------------- C18: the scan position ------------------- *)

\* The tokenizer is after a descriptor and the character at position is
\* neither whitespace nor the end of input: the step that rewinds.
AtRewind(f) ==
    /\ f.pc = "tokenize"
    /\ f.state = "after descriptor"
    /\ ~isASCIIWhitespace(charAt(f.input, f.position))
    /\ charAt(f.input, f.position) # EOF

\* C18: no step of the parse, tokenizer step or splitting iteration or
\* validator step, ends with a smaller position than it started with; the
\* step that rewinds goes back one character and ends where it started, in
\* state "in descriptor".
C18_PositionNeverDecreases ==
    [][ /\ frame'.position >= frame.position
        /\ AtRewind(frame) =>
               /\ rewind(frame).position = frame.position - 1
               /\ frame'.position = frame.position
               /\ frame'.pc = "tokenize"
               /\ frame'.state = "in descriptor" ]_vars

\* The state after a rewinding step: back in a descriptor with none begun,
\* at a character that follows whitespace.
C18_Witness ==
    /\ frame.pc = "tokenize"
    /\ frame.state = "in descriptor"
    /\ frame.descriptors # <<>>
    /\ frame.currentDescriptor = <<>>
    /\ frame.position >= 1
    /\ isASCIIWhitespace(charAt(frame.input, frame.position - 1))
    /\ ~isASCIIWhitespace(charAt(frame.input, frame.position))
    /\ charAt(frame.input, frame.position) # EOF

(* ---------------------------- C19: termination ------------------------- *)

\* What is left to do in frame f: the characters not yet scanned, then the
\* place in the program, then the descriptors not yet validated.
Remaining(f) ==
    << f.inputLength - f.position,
       CASE Terminated(f) -> 0
         [] f.pc = "splittingLoop" -> 1
         [] f.pc = "parseDescriptors" -> 2
         [] f.pc = "tokenize" /\ f.state # "after descriptor" -> 3
         [] OTHER -> 4,
       IF f.pc = "parseDescriptors" THEN Len(f.descriptors) - f.i ELSE 0 >>

LexLess(m, n) ==
    \/ m[1] < n[1]
    \/ m[1] = n[1] /\ m[2] < n[2]
    \/ m[1] = n[1] /\ m[2] = n[2] /\ m[3] < n[3]

\* C19: every call ends, returned or thrown. Each step leaves less to do
\* than the step before, and what is left is never negative; a tokenizer step
\* that does not advance the position is followed by one that does or that
\* leaves the tokenizer; a splitting iteration that does not end the call
\* advances the position by at least one character.
C19_ParseTerminates ==
    /\ <>Terminated(frame)
    /\ [][ /\ LexLess(Remaining(frame'), Remaining(frame))
           /\ \A k \in 1..3 : Remaining(frame')[k] >= 0
           /\ frame.pc = "tokenize" /\ frame'.pc = "tokenize"
                  /\ frame'.position = frame.position =>
                  /\ AtRewind(frame)
                  /\ LET next == tokenizeStep(frame')
                     IN  next.pc = "tokenize" => next.position = frame'.position + 1
           /\ frame.pc = "splittingLoop" /\ ~Terminated(frame') =>
                  frame'.position >= frame.position + 1 ]_vars

\* A call that has ended after the tokenizer took a step that rewinds.
C19_Witness ==
    /\ Terminated(frame)
    /\ Len(frame.descriptors) >= 2
    /\ frame.position = frame.inputLength

(* ---------------------------- C20: descriptor tokens ------------------- *)

\* The offset of the first comma outside a parenthesis group at or after
\* from; Len(str) if there is none.
TerminatorOffset(str, from) ==
    LET terminates(k) == str[k + 1] = "," /\ ~GroupOpen(SubSeq(str, from + 1, k))
    IN  CHOOSE k \in from..Len(str) :
            /\ k = Len(str) \/ terminates(k)
            /\ \A j \in from..(k - 1) : ~terminates(j)

\* Character k of text is whitespace outside a parenthesis group.
IsBreak(text, k) == isASCIIWhitespace(text[k]) /\ ~GroupOpen(SubSeq(text, 1, k - 1))

\* The maximal runs of characters of text that no break interrupts, in order.
Runs(text) ==
    LET starts == {k \in 1..Len(text) :
                      ~IsBreak(text, k) /\ (k = 1 \/ IsBreak(text, k - 1))}
        nth(j) == CHOOSE s \in starts : Cardinality({t \in starts : t < s}) = j - 1
        end(s) == CHOOSE n \in s..Len(text) :
                      /\ \A k \in s..n : ~IsBreak(text, k)
                      /\ n = Len(text) \/ IsBreak(text, n + 1)
    IN  [j \in 1..Cardinality(starts) |-> SubSeq(text, nth(j), end(nth(j)))]

\* The validator has just been entered from the tokenizer.
HandedOver == frame.pc = "parseDescriptors" /\ frame.i = 0 /\ ~UrlTokenEndsWithComma

\* The descriptor list is the list of runs between the URL token and the
\* terminating comma or the end of input, and the position is just after.
DescriptorsAreTheRuns ==
    HandedOver =>
        LET stop == TerminatorOffset(frame.input, UrlTokenEnd)
        IN  /\ frame.descriptors = Runs(SubSeq(frame.input, UrlTokenEnd + 1, stop))
            /\ frame.position = IF stop < frame.inputLength THEN stop + 1 ELSE stop

\* The step that rewinds leaves the character to be read again, in state
\* "in descriptor", with nothing added and nothing dropped.
RewindKeepsCharacter ==
    AtRewind(frame) =>
        LET again == tokenizeStep(frame)
        IN  /\ again.pc = "tokenize"
            /\ again.state = "in descriptor"
            /\ again.position = frame.position
            /\ again.descriptors = frame.descriptors
            /\ again.currentDescriptor = <<>>

\* The character read again is the first character of the next descriptor.
RewoundCharacterStartsDescriptor ==
    LET after == tokenizeStep(tokenizeStep(frame))
    IN  /\ after.pc = "tokenize"
        /\ after.position = frame.position + 1
        /\ after.descriptors = frame.descriptors
        /\ after.currentDescriptor = <<charAt(frame.input, frame.position)>>

\* C20 as stated: every character that is read again after a run of
\* whitespace becomes the first character of the next descriptor, and the
\* descriptor list handed to the validator is the list of runs.
C20_RewoundCharacterStartsNextDescriptor ==
    /\ RewindKeepsCharacter
    /\ AtRewind(frame) => RewoundCharacterStartsDescriptor
    /\ DescriptorsAreTheRuns

\* C20, amended: a character other than a comma that is read again after a
\* run of whitespace becomes the first character of the next descriptor; a
\* comma read again is the terminating comma, after which the validator gets
\* the descriptors collected so far; the descriptor list handed to the
\* validator is the list of runs.
C20_RewoundCharacterStartsDescriptorOrTerminates ==
    /\ RewindKeepsCharacter
    /\ AtRewind(frame) =>
           IF charAt(frame.input, frame.position) # ","
           THEN RewoundCharacterStartsDescriptor
           ELSE LET after == tokenizeStep(tokenizeStep(frame))
                IN  /\ after.pc = "parseDescriptors"
                    /\ after.position = frame.position + 1
                    /\ after.descriptors = frame.descriptors
    /\ DescriptorsAreTheRuns

\* One descriptor handed over at a comma that follows whitespace.
C20_Witness ==
    /\ HandedOver
    /\ Len(frame.descriptors) = 1
    /\ frame.position >= 2
    /\ frame.input[frame.position] = ","
    /\ isASCIIWhitespace(frame.input[frame.position - 1])

(* ---------------------------- C21: the terminating comma --------------- *)

\* The tokenizer is at a comma outside a parenthesis group.
AtCommaOutsideGroup ==
    /\ frame.pc = "tokenize"
    /\ charAt(frame.input, frame.position) = ","
    /\ ~GroupOpen(SubSeq(frame.input, UrlTokenEnd + 1, frame.position))

\* The frame in which the tokenizer has dealt with the character at position:
\* one step, or two when the first one rewinds.
AfterCharacter(f) == IF AtRewind(f) THEN tokenizeStep(tokenizeStep(f)) ELSE tokenizeStep(f)

\* The candidate being read, or the one just appended, came from the
\* tokenizer and its descriptor area ended at a comma.
EndedAtComma ==
    /\ \/ frame.pc = "parseDescriptors"
       \/ frame.pc = "splittingLoop" /\ Len(frame.candidates) > 0
    /\ ~UrlTokenEndsWithComma
    /\ TerminatorOffset(frame.input, UrlTokenEnd) < frame.inputLength

\* C21: a comma outside a parenthesis group ends the candidate from each of
\* the three places (after descriptor text, after whitespace that follows a
\* descriptor, after whitespace that follows the URL): the validator is
\* entered with the position just after the comma and with the descriptors
\* read so far, the comma in none of them; the position is still just after
\* the comma when the next splitting iteration begins.
C21_CommaEndsCandidate ==
    /\ AtCommaOutsideGroup =>
           LET after == AfterCharacter(frame)
           IN  /\ frame.state # "in parens"
               /\ after.pc = "parseDescriptors"
               /\ after.position = frame.position + 1
               /\ after.candidates = frame.candidates
               /\ after.descriptors =
                      IF frame.currentDescriptor # <<>>
                      THEN Append(frame.descriptors, frame.currentDescriptor)
                      ELSE frame.descriptors
    /\ EndedAtComma =>
           LET stop == TerminatorOffset(frame.input, UrlTokenEnd)
           IN  /\ frame.position = stop + 1
               /\ CountInAll(",", frame.descriptors) =
                      Count(",", SubSeq(frame.input, UrlTokenEnd + 1, stop))

\* 'b ,b' and the like: a candidate ended by a comma that follows whitespace
\* right after the URL has been appended, and more input follows the comma.
C21_Witness ==
    /\ frame.pc = "splittingLoop"
    /\ EndedAtComma
    /\ frame.position < frame.inputLength
    /\ isASCIIWhitespace(charAt(frame.input, frame.position - 2))
    /\ frame.descriptors = <<>>

(* ---------------------------- C22: parentheses do not nest ------------- *)

\* The tokenizer is at character ch.
TokenizerAt(ch) == frame.pc = "tokenize" /\ charAt(frame.input, frame.position) = ch

\* The tokenizer step appends the character at position and goes to state to;
\* descriptors and candidates stay as they are.
AppendsAndGoesTo(to) ==
    LET next == tokenizeStep(frame)
    IN  /\ next.pc = "tokenize"
        /\ next.state = to
        /\ next.position = frame.position + 1
        /\ next.currentDescriptor =
               Append(frame.currentDescriptor, charAt(frame.input, frame.position))
        /\ next.descriptors = frame.descriptors
        /\ next.candidates = frame.candidates

\* More "(" than ")" in the current descriptor.
OpenedMoreThanClosed ==
    Count("(", frame.currentDescriptor) > Count(")", frame.currentDescriptor)

\* C22: in state "in parens" a "(" is appended and the state stays; the
\* first ")" is appended and the state is "in descriptor", however many "("
\* came before; the tokenizer is in parens exactly when the text read since
\* the URL has a "(" with no ")" after it; in state "in descriptor" a ")" is
\* appended and the state stays, and a comma ends the candidate even when
\* more "(" than ")" were read.
C22_ParenthesesDoNotNest ==
    /\ frame.pc = "tokenize" /\ frame.state # "after descriptor" =>
           ((frame.state = "in parens") <=>
               \E k \in (UrlTokenEnd + 1)..frame.position :
                   /\ frame.input[k] = "("
                   /\ \A j \in (k + 1)..frame.position : frame.input[j] # ")")
    /\ TokenizerAt("(") /\ frame.state = "in parens" => AppendsAndGoesTo("in parens")
    /\ TokenizerAt(")") /\ frame.state = "in parens" => AppendsAndGoesTo("in descriptor")
    /\ TokenizerAt(")") /\ frame.state = "in descriptor" => AppendsAndGoesTo("in descriptor")
    /\ TokenizerAt(",") /\ frame.state = "in descriptor" /\ OpenedMoreThanClosed =>
           LET next == tokenizeStep(frame)
           IN  /\ next.pc = "parseDescriptors"
               /\ next.position = frame.position + 1
               /\ next.descriptors = Append(frame.descriptors, frame.currentDescriptor)

\* 'a ((),': the descriptor '(()' is handed over at the comma.
C22_Witness ==
    /\ frame.pc = "parseDescriptors"
    /\ frame.i = 0
    /\ frame.input = <<"a", " ", "(", "(", ")", ",">>
    /\ frame.descriptors = << <<"(", "(", ")">> >>
    /\ frame.position = 6

(* ---------------------------- C23: parentheses are rejected ----------- *)

\* The descriptor area of the candidate being read: the text between its URL
\* token and the terminating comma or the end of input.
DescriptorArea ==
    SubSeq(frame.input, UrlTokenEnd + 1, TerminatorOffset(frame.input, UrlTokenEnd))

\* The call that goes on from the current frame ends with the
\* invalid-descriptor error.
EndsThrownInvalid ==
    LET end == run(frame)
    IN  end.pc = "thrown" /\ end.error.name = "InvalidDescriptor" /\ ~end.returned.present

\* C23: when the descriptor area handed to the validator has a "(", the call
\* ends with the invalid-descriptor error; when the "(" is never closed, the
\* last descriptor is all the input from where that descriptor began up to
\* the end of input, the "(" and everything after it included.
C23_ParenthesisFailsTheParse ==
    HandedOver =>
        /\ Count("(", DescriptorArea) > 0 =>
               /\ EndsThrownInvalid
               /\ \E j \in 1..Len(frame.descriptors) : Count("(", frame.descriptors[j]) > 0
        /\ GroupOpen(DescriptorArea) =>
               LET last == frame.descriptors[Len(frame.descriptors)]
                   from == frame.inputLength - Len(last)
               IN  /\ frame.descriptors # <<>>
                   /\ frame.position = frame.inputLength
                   /\ last = SubSeq(frame.input, from + 1, frame.inputLength)
                   /\ GroupOpen(last)
                   /\ \A j \in 1..(Len(frame.descriptors) - 1) : ~GroupOpen(frame.descriptors[j])
                   /\ EndsThrownInvalid

\* 'a (, 1x': the unclosed group takes the comma, the space and '1x', and the
\* call has thrown.
C23_Witness ==
    /\ ThrownInvalid
    /\ frame.input = <<"a", " ", "(", ",", " ", "1", "x">>
    /\ frame.descriptors = << <<"(", ",", " ", "1", "x">> >>
    /\ frame.candidates = <<>>

(* ---------------------------- C24: fresh state per candidate ----------- *)

\* The width, density and height of a candidate.
Dimensions(candidate) == <<candidate.width, candidate.density, candidate.height>>

\* Candidate j of the result, parsed alone: the call on the input from the
\* candidate's URL token up to the URL token of the next candidate, or up to
\* the end of input for the last one.
ParsedAlone(j) ==
    LET result == frame.returned.value
        from   == result[j].source.startOffset
        to     == IF j < Len(result) THEN result[j + 1].source.startOffset
                  ELSE frame.inputLength
    IN  parseSrcset(SubSeq(frame.input, from + 1, to))

\* C24: each candidate of a result has the width, density and height that
\* its own text gives when parsed alone; when a splitting iteration starts a
\* candidate, the descriptor list is empty, and the tokenizer starts with an
\* empty current descriptor in state "in descriptor", the validator with no
\* width, density, height or error, whatever the candidate before left.
C24_FreshStatePerCandidate ==
    /\ frame.pc = "returned" =>
           \A j \in 1..Len(frame.returned.value) :
               LET alone == ParsedAlone(j)
               IN  /\ alone.returned.present
                   /\ Len(alone.returned.value) = 1
                   /\ alone.returned.value[1].source.value = frame.returned.value[j].source.value
                   /\ Dimensions(alone.returned.value[1]) = Dimensions(frame.returned.value[j])
    /\ frame.pc = "splittingLoop" /\ ~Terminated(splittingLoop(frame)) =>
           LET next == splittingLoop(frame)
           IN  /\ next.descriptors = <<>>
               /\ next.pc = "tokenize" =>
                      next.currentDescriptor = <<>> /\ next.state = "in descriptor"
               /\ next.pc = "parseDescriptors" =>
                      /\ ~next.w.present /\ ~next.d.present /\ ~next.h.present
                      /\ ~next.pError /\ next.i = 0
    /\ frame.pc = "parseDescriptors" /\ frame.i = 0 =>
           ~frame.w.present /\ ~frame.d.present /\ ~frame.h.present /\ ~frame.pError

\* 'a 2w,a': the second candidate has no width.
C24_Witness ==
    /\ frame.pc = "returned"
    /\ frame.input = <<"a", " ", "2", "w", ",", "a">>
    /\ Len(frame.returned.value) = 2
    /\ frame.returned.value[1].width = [present |-> TRUE, value |-> 2]
    /\ ~frame.returned.value[2].width.present

(* ---------------------------- C25: one validator run per URL token ----- *)

\* The number of times the validator is entered from frame f on.
RECURSIVE ValidatorRuns(_)
ValidatorRuns(f) ==
    IF Terminated(f) THEN 0
    ELSE (IF f.pc # "parseDescriptors" /\ step(f).pc = "parseDescriptors" THEN 1 ELSE 0)
             + ValidatorRuns(step(f))

\* The validator has failed: error is yes.
ValidatorFailed(f) == f.pc = "parseDescriptors" /\ f.pError

\* C25: a call enters the validator as many times as its splitting loop
\* finds URL tokens. A splitting iteration that finds a URL token is followed
\* by the tokenizer or the validator, the tokenizer by itself or the
\* validator, the validator by its next descriptor and then by the splitting
\* loop with one more candidate, or by the error; the URL token stays the
\* same until then. Once the validator has failed, the position stays, no
\* candidate is added and the call ends thrown, after which nothing happens.
C25_ValidatorRunsOncePerUrlToken ==
    /\ [](Terminated(frame) =>
              /\ ValidatorRuns(newFrame(frame.input)) =
                     Len(UrlTokenOffsets(newFrame(frame.input)))
              /\ step(frame) = frame)
    /\ [][ /\ frame.pc = "splittingLoop" =>
                  frame'.pc \in {"tokenize", "parseDescriptors", "returned", "thrown"}
           /\ frame.pc = "tokenize" =>
                  /\ frame'.pc \in {"tokenize", "parseDescriptors"}
                  /\ frame'.startOffset = frame.startOffset
                  /\ frame'.url = frame.url
                  /\ frame'.candidates = frame.candidates
           /\ frame.pc = "parseDescriptors" =>
                  /\ frame'.startOffset = frame.startOffset
                  /\ frame'.url = frame.url
                  /\ frame'.descriptors = frame.descriptors
                  /\ frame'.position = frame.position
                  /\ \/ /\ frame'.pc = "parseDescriptors"
                        /\ frame'.i = frame.i + 1
                        /\ frame'.candidates = frame.candidates
                     \/ /\ frame'.pc = "splittingLoop"
                        /\ frame.i = Len(frame.descriptors)
                        /\ Len(frame'.candidates) = Len(frame.candidates) + 1
                        /\ frame'.candidates[Len(frame'.candidates)].source.startOffset =
                               frame.startOffset
                     \/ /\ frame'.pc = "thrown"
                        /\ frame.i = Len(frame.descriptors)
                        /\ frame'.candidates = frame.candidates
           /\ ValidatorFailed(frame) =>
                  /\ ValidatorFailed(frame') \/ frame'.pc = "thrown"
                  /\ frame'.position = frame.position
                  /\ frame'.candidates = frame.candidates
                  /\ frame'.startOffset = frame.startOffset ]_vars

\* 'a f,a 2w': the call has thrown at the first candidate, with the second
\* one not scanned.
C25_Witness ==
    /\ ThrownInvalid
    /\ frame.candidates = <<>>
    /\ frame.startOffset = 0
    /\ frame.position < frame.inputLength
    /\ \E k \in (frame.position + 1)..frame.inputLength : frame.input[k] = "w"

(* ---------------------------- C26: interleaved calls ------------------- *)

\* What a call gives: how it ended, the candidates it returned or the error
\* it threw.
Outcome(f) == <<f.pc, f.returned, f.error>>

\* C26: at every point of every interleaving, each of the two calls will
\* end, and has ended when it has, with the outcome it has when it runs
\* alone on its input; a step of one call changes nothing of the other.
C26_InterleavedCallsAreIndependent ==
    /\ [](\A k \in 1..2 : Outcome(run(frame[k])) = Outcome(parseSrcset(frame[k].input)))
    /\ [][ \/ frame'[1] = frame[1] /\ frame'[2] = step(frame[2])
           \/ frame'[2] = frame[2] /\ frame'[1] = step(frame[1]) ]_vars

\* Both calls have ended on different inputs, one returned and one thrown.
C26_Witness ==
    /\ frame[1].pc = "returned"
    /\ frame[1].input = <<"a", " ", "2", "w">>
    /\ frame[1].returned.value[1].width = [present |-> TRUE, value |-> 2]
    /\ frame[2].pc = "thrown"
    /\ frame[2].input = <<"a", " ", "f">>

(* ---------------------------- C27: the empty-set error ----------------- *)

\* A character that is neither whitespace nor a comma occurs in str.
HasOtherCharacter(str) ==
    \E k \in 1..Len(str) : str[k] \notin {" ", "\t", "\n", "\f", "\r", ","}

\* C27: a call that ends with the empty-set error had an input of commas and
\* whitespace only; a call on any other input ends with at least one
\* candidate returned or with the invalid-descriptor error.
C27_EmptyErrorOnlyForSeparators ==
    Terminated(frame) =>
        /\ ThrownEmpty => ~HasOtherCharacter(frame.input)
        /\ HasOtherCharacter(frame.input) =>
               \/ /\ frame.pc = "returned"
                  /\ frame.returned.present
                  /\ Len(frame.returned.value) >= 1
               \/ ThrownInvalid

\* An input with separators around one other character has returned one
\* candidate.
C27_Witness ==
    /\ frame.pc = "returned"
    /\ Len(frame.returned.value) = 1
    /\ Len(frame.input) = 5
    /\ Len(frame.returned.value[1].source.value) = 1
    /\ frame.input[1] = ","
    /\ HasOtherCharacter(frame.input)

(* ---------------------------- C28: the URL of a candidate -------------- *)

\* C28: the URL of every candidate collected or returned is not empty, has
\* no tab, line feed, form feed, carriage return or space, and neither
\* starts nor ends with a comma.
C28_UrlIsWellFormed ==
    LET wellFormed(candidate) ==
            LET value == candidate.source.value
            IN  /\ Len(value) >= 1
                /\ \A k \in 1..Len(value) : value[k] \notin {"\t", "\n", "\f", "\r", " "}
                /\ value[1] # ","
                /\ value[Len(value)] # ","
    IN  /\ \A j \in 1..Len(frame.candidates) : wellFormed(frame.candidates[j])
        /\ frame.pc = "returned" =>
               /\ frame.returned.present
               /\ \A j \in 1..Len(frame.returned.value) : wellFormed(frame.returned.value[j])

\* 'a,a,': the URL 'a,a' has a comma inside and none at its end.
C28_Witness ==
    /\ frame.pc = "returned"
    /\ frame.input = <<"a", ",", "a", ",">>
    /\ Len(frame.returned.value) = 1
    /\ frame.returned.value[1].source.value = <<"a", ",", "a">>

(* ---------------------------- C29: position and descriptor tokens ------ *)

\* C29: the position is always between 0 and the length of the input, also
\* in the middle of the tokenizer step that rewinds; no descriptor in the
\* descriptor list is empty while the tokenizer or the validator runs, and
\* the descriptor that the validator looks at has a last character.
C29_PositionInRangeDescriptorsNonEmpty ==
    /\ 0 <= frame.position
    /\ frame.position <= frame.inputLength
    /\ frame.inputLength = Len(frame.input)
    /\ AtRewind(frame) => rewind(frame).position >= 0
    /\ frame.pc \in {"tokenize", "parseDescriptors"} =>
           \A j \in 1..Len(frame.descriptors) : Len(frame.descriptors[j]) >= 1
    /\ frame.pc = "tokenize" /\ frame.state = "in parens" => frame.currentDescriptor # <<>>
    /\ frame.pc = "parseDescriptors" /\ frame.i >= 1 =>
           /\ frame.desc = frame.descriptors[frame.i]
           /\ lastCharOf(frame.desc) = frame.desc[Len(frame.desc)]
           /\ lastCharOf(frame.desc) # "undefined"

\* '1 (),': the validator, entered at the end of the input after the comma
\* advance, looks at the descriptor '()'.
C29_Witness ==
    /\ frame.pc = "parseDescriptors"
    /\ frame.i = 1
    /\ frame.position = frame.inputLength
    /\ frame.input[frame.inputLength] = ","
    /\ frame.desc = <<"(", ")">>

====
